---- MODULE Spec2Model ----
(***************************************************************************)
(* A model of CLOUDAIV1RECOIL.py: the movement scheduler                   *)
(* (distribute_movement), the shared configuration (AppState), the serial  *)
(* device controller (MakcuController) and the actuation loop              *)
(* (CloudRecoil.recoil_loop).                                              *)
(*                                                                         *)
(* The module holds several specifications over one set of variables:      *)
(*   SpecDist  the pure function distribute_movement on drawn inputs       *)
(*   SpecCfg   AppState.update against AppState.get_full_config            *)
(*   SpecCtl   the calls of MakcuController (connect, move, close)         *)
(*   SpecLoop  recoil_loop with the UI editing the settings                *)
(*   SpecLoad  Config.load on drawn documents                              *)
(*   SpecFps   recoil_loop beside the fps timer                            *)
(*   SpecShut  recoil_loop, a connect worker and closeEvent                *)
(*   SpecStop  recoil_loop beside the main thread, with fairness           *)
(*   SpecConn  recoil_loop, the use_makcu checkbox and two connect workers *)
(* The variables a specification does not use keep their idle values.      *)
(***************************************************************************)
EXTENDS Integers, Sequences, FiniteSets, TLC

VARIABLES
    \* ---- distribute_movement, called on drawn inputs (SpecDist)
    dm_pc,          \* "call" before the call, "done" after it
    dm_total,       \* the argument total_pixels
    dm_steps,       \* the argument steps
    dm_moves        \* the list returned

VARIABLES
    \* ---- MakcuController: the object's fields
    serial,         \* self.serial: None, or the Serial object [port, is_open, baudrate]
    connected,      \* self.connected
    port_name,      \* self.port_name: NoPort (None) or a port
    leaked,         \* ports of Serial objects dropped from self.serial while still open
    \* ---- a call of MakcuController.connect
    c_pc,           \* "idle", "open", "handshake", "finalize", "mark", "done"
    c_ports,        \* ports = list_ports.comports(): the ports 1..c_ports
    c_port,         \* the port of the candidate being tried
    c_prof,         \* the index in ProfileOrder of the candidate's profile
    c_log,          \* what happened to each candidate tried by this call, in order
    c_ret,          \* the value returned: "none" while running, then "True" or "False"
    c_before,       \* self.connected as the call found it
    \* ---- a call of MakcuController.move
    m_pc,           \* "idle", "write", "done"
    m_call,         \* the call: [x, y, lost_at_call, writes, ret]
    \* ---- the caller of the controller (SpecCtl) and what it has seen
    calls,          \* calls made so far
    last_op,        \* the last call completed: "none", "connect", "move", "close"
    prev_op,        \* the call completed before it
    close_snap,     \* the fields as the last close() left them
    lost            \* a move write has failed and no connect() has succeeded since

VARIABLES
    \* ---- AppState: the object's fields
    settings,       \* self.settings: the dict, a function of its keys
    lock,           \* self.lock: "free", or who holds it: "update", "get", "loop"
    \* ---- a call of AppState.update
    u_pc,           \* "idle", "acquire", "merge"
    u_new,          \* the argument new_settings
    u_idx,          \* the next key of new_settings to write
    updates,        \* calls of update so far
    \* ---- a call of AppState.get_full_config
    g_pc,           \* "idle", "acquire", "copy", "done"
    g_copy,         \* the copy being made, then returned
    g_idx,          \* the next key of settings to copy
    snapshots,      \* calls of get_full_config so far
    versions        \* the settings at the start and as each update called leaves them

VARIABLES
    \* ---- CloudRecoil.recoil_loop and the UI beside it (SpecLoop)
    l_pc,           \* "while", "fps_load", "fps_store", "get_config", "copy", "release",
                    \* "evaluate", "send", "move", "sleep", "exit", and "raised" once
                    \* an exception has left recoil_loop
    running,        \* app_state.running
    fps,            \* app_state.fps
    ticks,          \* ticks started so far
    edits,          \* controls the UI has moved so far
    l_fps,          \* the value of fps read by fps += 1
    config,         \* the local config: the snapshot of the tick
    lmb_pressed,    \* the local lmb_pressed
    ads_pressed,    \* the local ads_pressed
    smoothing,      \* the local smoothing
    dx_total,       \* the local dx_total: the jitter drawn for the tick
    x_moves,        \* the local x_moves
    y_moves,        \* the local y_moves
    use_makcu,      \* the local use_makcu
    step_i,         \* the local i: the index of the for loop over the plan
    sent,           \* the backend calls of the tick so far: [backend, dx, dy, ret]
    lost_before     \* whether a move write had failed, with no connect() since, when
                    \* the tick chose its backend

VARIABLES
    \* ---- Config.load, called on drawn documents (SpecLoad)
    ld_pc,          \* "idle", "call" before the call, "done" after it
    ld_doc,         \* the file at CONFIG_PATH: [kind, fields]
    ld_result,      \* what the call gave: [kind, value]
    \* ---- the main thread beside the loop: the fps timer, closeEvent
    t_pc,           \* update_fps_label: "idle", or "reset" between its two lines
    reported,       \* the sum of the values update_fps_label has emitted
    fires,          \* timeouts of the fps timer so far
    ce_pc,          \* closeEvent: "idle", "close", "save", "clear", "done"
    saved,          \* what Config.save has written, NoConfig before
    \* ---- the thread running _connect_makcu_worker
    w_pc            \* "idle", "start", "connect", "uncheck", "done"

VARIABLES
    \* ---- the use_makcu checkbox under the user's clicks (SpecConn)
    clicks,         \* clicks the user has made on the checkbox so far
    clicked,        \* the user's last click: "none", "check", "uncheck"
    \* ---- a second thread running _connect_makcu_worker, started by a check
    \* ---- made while the first thread exists, and its call of connect()
    w2_pc,          \* as w_pc
    d_pc,           \* as c_pc
    d_ports,        \* as c_ports
    d_port,         \* as c_port
    d_prof,         \* as c_prof
    d_ret,          \* as c_ret
    \* ---- what the model records of the Serial object in self.serial
    probing         \* a connect() opened it and no _finalize_connection has done
                    \* its I/O on it

dmVars == <<dm_pc, dm_total, dm_steps, dm_moves>>

ldVars == <<ld_pc, ld_doc, ld_result>>

uiVars == <<t_pc, reported, fires, ce_pc, saved, w_pc>>

boxVars == <<clicks, clicked>>

workerTwoVars == <<w2_pc, d_pc, d_ports, d_port, d_prof, d_ret>>

connVars == <<boxVars, workerTwoVars, probing>>

extVars == <<ldVars, uiVars, connVars>>

loopVars == <<l_pc, running, fps, ticks, edits, l_fps, config, lmb_pressed, ads_pressed,
              smoothing, dx_total, x_moves, y_moves, use_makcu, step_i, sent, lost_before>>

\* the locals of recoil_loop and what the model records of the tick
loopLocals == <<l_fps, config, lmb_pressed, ads_pressed, smoothing, dx_total, x_moves,
                y_moves, use_makcu, step_i, sent, lost_before>>

cfgVars == <<settings, lock, u_pc, u_new, u_idx, updates, g_pc, g_copy, g_idx, snapshots, versions>>

selfVars == <<serial, connected, port_name, leaked>>

connectVars == <<c_pc, c_ports, c_port, c_prof, c_log, c_ret, c_before>>

moveVars == <<m_pc, m_call>>

callsVars == <<calls, last_op, prev_op, close_snap>>

ctlVars == <<selfVars, connectVars, moveVars, callsVars, lost>>

vars == <<dmVars, ctlVars, cfgVars, loopVars, extVars>>

(***************************************************************************)
(* Bounds of the model.                                                    *)
(***************************************************************************)
MaxTotal == 50          \* distribute_movement is called on totals in -MaxTotal..MaxTotal
MaxSteps == 10          \* and on steps in -MaxNegSteps..MaxSteps
MaxNegSteps == 2
MaxPorts == 2           \* list_ports.comports() returns at most MaxPorts ports
MaxCalls == 4           \* the caller of the controller makes at most MaxCalls calls
MaxMove == 1            \* move is called with x and y in -MaxMove..MaxMove
MaxUpdates == 2         \* AppState.update is called at most MaxUpdates times
MaxSnapshots == 2       \* AppState.get_full_config is called at most MaxSnapshots times
MaxTicks == 2           \* recoil_loop starts at most MaxTicks ticks
MaxEdits == 1           \* the UI moves at most MaxEdits controls
MaxFires == 2           \* fps_timer fires at most MaxFires times
MaxWorkerPorts == 1     \* the worker's connect() finds at most MaxWorkerPorts ports
MaxClicks == 2          \* the user clicks the use_makcu checkbox at most MaxClicks times

(***************************************************************************)
(* Helpers on sequences.                                                   *)
(***************************************************************************)
RECURSIVE SumSeq(_)
SumSeq(s) == IF s = <<>> THEN 0 ELSE Head(s) + SumSeq(Tail(s))

Max(a, b) == IF a >= b THEN a ELSE b

(***************************************************************************)
(* Python's integer operators.  a // b rounds toward negative infinity and *)
(* a % b takes the sign of b; distribute_movement divides by steps > 0     *)
(* only.  TruncDiv is the division of a language that rounds toward zero.  *)
(***************************************************************************)
TruncDiv(a, b) == IF a >= 0 THEN a \div b ELSE -((-a) \div b)

PyFloorDiv(a, b) == a \div b

PyMod(a, b) == a % b

(***************************************************************************)
(* distribute_movement (src lines 81-89).                                  *)
(*   moves = [base_move] * steps                                           *)
(*   for i in range(remainder): moves[i] += 1                              *)
(* AddOnes runs the for loop: Python's index i is TLA+'s index i + 1.      *)
(***************************************************************************)
RECURSIVE AddOnesFrom(_, _, _)
AddOnesFrom(moves, i, remainder) ==
    IF i >= remainder THEN moves
    ELSE AddOnesFrom([moves EXCEPT ![i + 1] = @ + 1], i + 1, remainder)

AddOnesLast(moves, remainder) ==
    [k \in 1..Len(moves) |->
        IF k > Len(moves) - remainder THEN moves[k] + 1 ELSE moves[k]]

AddOnes(moves, remainder) == AddOnesFrom(moves, 0, remainder)

distribute_movement(total_pixels, steps) ==
    IF steps <= 0 THEN <<>>
    ELSE LET base_move == PyFloorDiv(total_pixels, steps)
             remainder == PyMod(total_pixels, steps)
             moves     == [k \in 1..steps |-> base_move]
         IN  AddOnes(moves, remainder)

\* distribute_movement is not being called
DmIdle ==
    /\ dm_pc = "idle"
    /\ dm_total = 0
    /\ dm_steps = 0
    /\ dm_moves = <<>>

(***************************************************************************)
(* Text.  A string the code tests or changes is a sequence of one-letter   *)
(* strings, so that lower-casing and the substring test are computed.      *)
(***************************************************************************)
\* self.serial = None: no Serial object.  A Serial object is a record
\* [port, is_open, baudrate] whose port is one of 1..MaxPorts.
None == [port |-> 0, is_open |-> FALSE, baudrate |-> 0]

\* self.port_name = None
NoPort == 0

UpperChars == <<"A", "B", "C", "K", "M", "O", "R", "T", "U", "X">>

LowerChars == <<"a", "b", "c", "k", "m", "o", "r", "t", "u", "x">>

\* str.lower() on one character
LowerChar(c) ==
    IF \E k \in 1..Len(UpperChars) : UpperChars[k] = c
    THEN LowerChars[CHOOSE k \in 1..Len(UpperChars) : UpperChars[k] = c]
    ELSE c

StrLower(s) == [k \in 1..Len(s) |-> LowerChar(s[k])]

\* sep.join(lines)
RECURSIVE StrJoin(_, _)
StrJoin(lines, sep) ==
    IF lines = <<>> THEN <<>>
    ELSE IF Len(lines) = 1 THEN lines[1]
    ELSE lines[1] \o sep \o StrJoin(Tail(lines), sep)

\* keyword in response
StrContains(keyword, response) ==
    \E k \in 0..(Len(response) - Len(keyword)) :
        SubSeq(response, k + 1, k + Len(keyword)) = keyword

(***************************************************************************)
(* MakcuController.DEVICE_PROFILES (src lines 189-206).  The commands and  *)
(* the init sequence are kept as names: only whether they are empty is     *)
(* read by the code.                                                       *)
(***************************************************************************)
BAUDRATE_DEFAULT == 115200

DEVICE_PROFILES ==
    [makcu |->
        [HANDSHAKE_COMMAND |-> "km.version()",
         HANDSHAKE_RESPONSE_KEYWORDS |->
            << <<"k", "m", ".", "m", "a", "k", "c", "u">>, <<"k", "m">> >>,
         BAUDRATE_HIGH |-> 4000000,
         INIT_SEQUENCE |-> "DEAD0500A500093D00",
         INIT_COMMAND |-> "km.buttons(1)"],
     otherbox |->
        [HANDSHAKE_COMMAND |-> "box.version()",
         HANDSHAKE_RESPONSE_KEYWORDS |->
            << <<"o", "t", "h", "e", "r", "b", "o", "x">> >>,
         BAUDRATE_HIGH |-> 115200,
         INIT_SEQUENCE |-> "",
         INIT_COMMAND |-> ""]]

\* the order of DEVICE_PROFILES.items()
ProfileOrder == <<"makcu", "otherbox">>

(***************************************************************************)
(* What a device may have sent when _read_response drains the port: the    *)
(* lines, each decoded and stripped.                                       *)
(***************************************************************************)
DeviceOutputs ==
    { <<>>,
      << <<"k", "m", ".", "M", "A", "K", "C", "U">> >>,
      << <<"O", "t", "h", "e", "r", "B", "o", "x">>, <<"v", "1">> >>,
      << <<"o", "k">> >> }

\* _read_response (src lines 267-276): the lines joined by a space, lower-cased
read_response(lines) == StrLower(StrJoin(lines, <<" ">>))

\* any(keyword in response for keyword in profile["HANDSHAKE_RESPONSE_KEYWORDS"])
any_keyword(profile, response) ==
    \E k \in 1..Len(profile.HANDSHAKE_RESPONSE_KEYWORDS) :
        StrContains(profile.HANDSHAKE_RESPONSE_KEYWORDS[k], response)

\* whether _finalize_connection performs I/O that can fail for this profile:
\* the two writes and the change of baud rate
finalize_does_io(profile) ==
    \/ profile.INIT_SEQUENCE # ""
    \/ profile.BAUDRATE_HIGH # BAUDRATE_DEFAULT
    \/ profile.INIT_COMMAND # ""

\* whether _finalize_connection writes to the port for this profile
finalize_writes(profile) ==
    \/ profile.INIT_SEQUENCE # ""
    \/ profile.INIT_COMMAND # ""

(***************************************************************************)
(* MakcuController.__init__ (src lines 208-211).                           *)
(***************************************************************************)
SelfInit ==
    /\ serial = None
    /\ connected = FALSE
    /\ port_name = NoPort
    /\ leaked = {}

ConnectIdle ==
    /\ c_pc = "idle"
    /\ c_ports = 0
    /\ c_port = 0
    /\ c_prof = 0
    /\ c_log = <<>>
    /\ c_ret = "none"
    /\ c_before = FALSE

NoCall == [x |-> 0, y |-> 0, lost_at_call |-> FALSE, writes |-> <<>>, ret |-> "none"]

MoveIdle ==
    /\ m_pc = "idle"
    /\ m_call = NoCall

CallerInit ==
    /\ calls = 0
    /\ last_op = "none"
    /\ prev_op = "none"
    /\ close_snap = <<>>
    /\ lost = FALSE

CtlIdle == SelfInit /\ ConnectIdle /\ MoveIdle /\ CallerInit

(***************************************************************************)
(* MakcuController.close (src lines 295-300): the fields as close() leaves *)
(* them.  serial.close() is called only on an open Serial object.          *)
(***************************************************************************)
serial_is_open == serial # None /\ serial.is_open

serial_closed == IF serial_is_open THEN [serial EXCEPT !.is_open = FALSE] ELSE serial

close_fields_stale ==
    [serial |-> serial_closed, connected |-> connected, port_name |-> port_name]

close_fields ==
    [serial |-> serial_closed, connected |-> FALSE, port_name |-> NoPort]

close ==
    /\ serial' = close_fields.serial
    /\ connected' = close_fields.connected
    /\ port_name' = close_fields.port_name
    /\ UNCHANGED leaked

(***************************************************************************)
(* MakcuController.connect (src lines 213-247), one step at a time.  A     *)
(* candidate is a (port, profile) pair; the for loops try port 1 with      *)
(* every profile of ProfileOrder, then port 2, and so on.                  *)
(***************************************************************************)
c_profile == DEVICE_PROFILES[ProfileOrder[c_prof]]

LogEntry(outcome) ==
    [port |-> c_port, profile |-> ProfileOrder[c_prof], outcome |-> outcome]

\* the mutant's loop gives up at the first candidate it rejects
after_reject_stop ==
    [pc |-> "done", port |-> c_port, prof |-> c_prof, ret |-> "False"]

\* the mutant's loops take the ports of a profile before the next profile
after_reject_ports_first ==
    IF c_port < c_ports
    THEN [pc |-> "open", port |-> c_port + 1, prof |-> c_prof, ret |-> "none"]
    ELSE IF c_prof < Len(ProfileOrder)
    THEN [pc |-> "open", port |-> 1, prof |-> c_prof + 1, ret |-> "none"]
    ELSE [pc |-> "done", port |-> c_port, prof |-> c_prof, ret |-> "False"]

\* where the for loops go after a rejected candidate: the next profile, the
\* next port, or past the loops to "return False" (src lines 246-247)
after_reject ==
    IF c_prof < Len(ProfileOrder)
    THEN [pc |-> "open", port |-> c_port, prof |-> c_prof + 1, ret |-> "none"]
    ELSE IF c_port < c_ports
    THEN [pc |-> "open", port |-> c_port + 1, prof |-> 1, ret |-> "none"]
    ELSE [pc |-> "done", port |-> c_port, prof |-> c_prof, ret |-> "False"]

Reject(outcome) ==
    /\ c_log' = Append(c_log, LogEntry(outcome))
    /\ c_pc' = after_reject.pc
    /\ c_port' = after_reject.port
    /\ c_prof' = after_reject.prof
    /\ c_ret' = after_reject.ret
    /\ UNCHANGED <<c_ports, c_before>>

\* src lines 214-219: self.close(); ports = list_ports.comports(), which
\* finds the ports 1..n
connect_found(n) ==
    /\ c_pc = "idle"
    /\ close
    /\ c_before' = connected
    /\ c_log' = <<>>
    /\ c_ports' = n
    /\ IF n = 0
       THEN c_pc' = "done" /\ c_ret' = "False" /\ c_port' = 0 /\ c_prof' = 0
       ELSE c_pc' = "open" /\ c_ret' = "none" /\ c_port' = 1 /\ c_prof' = 1
    /\ UNCHANGED lost

connect_call == \E n \in 0..MaxPorts : connect_found(n)

\* src lines 223-229 and, when serial.Serial raises, lines 241-244
connect_open ==
    /\ c_pc = "open"
    /\ \/ /\ serial' = [port |-> c_port, is_open |-> TRUE, baudrate |-> BAUDRATE_DEFAULT]
          /\ leaked' = IF serial_is_open THEN leaked \cup {serial.port} ELSE leaked
          /\ c_pc' = "handshake"
          /\ UNCHANGED <<c_ports, c_port, c_prof, c_log, c_ret, c_before>>
       \/ /\ serial' = serial_closed
          /\ Reject("open_error")
          /\ UNCHANGED leaked
    /\ UNCHANGED <<connected, port_name, lost>>

\* the mutant's else branch leaves the candidate's port open (no line 240)
connect_handshake_port_kept ==
    /\ c_pc = "handshake"
    /\ \/ /\ serial' = serial_closed
          /\ Reject("write_error")
       \/ /\ serial_is_open
          /\ \E lines \in DeviceOutputs :
                IF any_keyword(c_profile, read_response(lines))
                THEN /\ c_pc' = "finalize"
                     /\ UNCHANGED <<serial, c_ports, c_port, c_prof, c_log, c_ret, c_before>>
                ELSE /\ UNCHANGED serial
                     /\ Reject("no_match")
    /\ UNCHANGED <<connected, port_name, leaked, lost>>

\* src lines 231-240 and, when the write raises, lines 241-244
connect_handshake ==
    /\ c_pc = "handshake"
    /\ \/ /\ serial' = serial_closed
          /\ Reject("write_error")
       \/ /\ serial_is_open
          /\ \E lines \in DeviceOutputs :
                IF any_keyword(c_profile, read_response(lines))
                THEN /\ c_pc' = "finalize"
                     /\ UNCHANGED <<serial, c_ports, c_port, c_prof, c_log, c_ret, c_before>>
                ELSE /\ serial' = serial_closed
                     /\ Reject("no_match")
    /\ UNCHANGED <<connected, port_name, leaked, lost>>

\* _finalize_connection up to the timeouts (src lines 250-260) and, when a
\* write or the change of baud rate raises, lines 241-244 of connect
connect_finalize ==
    /\ c_pc = "finalize"
    /\ port_name' = c_port
    /\ \/ /\ finalize_writes(c_profile) => serial_is_open
          /\ serial' = [serial EXCEPT !.baudrate = c_profile.BAUDRATE_HIGH]
          /\ c_pc' = "mark"
          /\ UNCHANGED <<c_ports, c_port, c_prof, c_log, c_ret, c_before>>
       \/ /\ finalize_does_io(c_profile)
          /\ serial' = serial_closed
          /\ Reject("final_error")
    /\ UNCHANGED <<connected, leaked, lost>>

\* _finalize_connection from the timeouts on (src lines 262-265) and the
\* return True of connect (line 238)
connect_mark ==
    /\ c_pc = "mark"
    /\ connected' = TRUE
    /\ c_log' = Append(c_log, LogEntry("matched"))
    /\ c_ret' = "True"
    /\ c_pc' = "done"
    /\ lost' = FALSE
    /\ UNCHANGED <<serial, port_name, leaked, c_ports, c_port, c_prof, c_before>>

(***************************************************************************)
(* MakcuController.move (src lines 278-293): the checks, then the write.   *)
(***************************************************************************)
\* the mutant tests for the zero move before it tests the connection
move_check_zero_first(x, y) ==
    IF x = 0 /\ y = 0 THEN "true"
    ELSE IF ~connected \/ serial = None THEN "false"
    ELSE "write"

\* src lines 279-283
move_check(x, y) ==
    IF ~connected \/ serial = None THEN "false"
    ELSE IF x = 0 /\ y = 0 THEN "true"
    ELSE "write"

move_call(x, y) ==
    /\ m_pc = "idle"
    /\ LET r == move_check(x, y) IN
          /\ m_call' = [x |-> x, y |-> y,
                        lost_at_call |-> lost,
                        writes |-> <<>>,
                        ret |-> CASE r = "false" -> "False"
                                  [] r = "true" -> "True"
                                  [] OTHER -> "none"]
          /\ m_pc' = IF r = "write" THEN "write" ELSE "done"
    /\ UNCHANGED <<selfVars, lost>>

\* the mutant's except clause only logs
move_write_error_ignored ==
    /\ m_call' = [m_call EXCEPT !.writes = Append(@, [port |-> serial.port, ok |-> FALSE]),
                                !.ret = "False"]
    /\ lost' = TRUE
    /\ UNCHANGED selfVars

\* the mutant's except clause drops the connection with close()
move_write_error_closes ==
    /\ m_call' = [m_call EXCEPT !.writes = Append(@, [port |-> serial.port, ok |-> FALSE]),
                                !.ret = "False"]
    /\ serial' = close_fields.serial
    /\ connected' = close_fields.connected
    /\ port_name' = close_fields.port_name
    /\ lost' = TRUE
    /\ UNCHANGED leaked

\* src lines 290-293: the except clause
move_write_error ==
    /\ m_call' = [m_call EXCEPT !.writes = Append(@, [port |-> serial.port, ok |-> FALSE]),
                                !.ret = "False"]
    /\ connected' = FALSE
    /\ lost' = TRUE
    /\ UNCHANGED <<serial, port_name, leaked>>

\* src lines 285-293: a write to a port that is not open raises
move_write ==
    /\ m_pc = "write"
    /\ m_pc' = "done"
    /\ \/ /\ serial_is_open
          /\ m_call' = [m_call EXCEPT !.writes = Append(@, [port |-> serial.port, ok |-> TRUE]),
                                      !.ret = "True"]
          /\ UNCHANGED <<selfVars, lost>>
       \/ move_write_error

(***************************************************************************)
(* Config.DEFAULTS (src lines 138-151), in the order of its keys.          *)
(***************************************************************************)
DEFAULTS ==
    [recoil_compensation |-> TRUE,
     bloom_reduction |-> FALSE,
     require_ads |-> TRUE,
     show_crosshair |-> FALSE,
     recoil_strength |-> 11,
     smoothing |-> 3,
     bloom_intensity |-> 2,
     crosshair_color |-> "#BF40BF",
     crosshair_size |-> 5,
     crosshair_thickness |-> 2,
     use_makcu |-> FALSE]

\* the keys of the settings dict in insertion order: dict.copy() walks them so
KeyOrder ==
    <<"recoil_compensation", "bloom_reduction", "require_ads", "show_crosshair",
      "recoil_strength", "smoothing", "bloom_intensity", "crosshair_color",
      "crosshair_size", "crosshair_thickness", "use_makcu">>

\* the keys of the dict update_settings builds (src lines 698-701): the
\* checkboxes, the sliders, the crosshair sliders, the colour
WidgetOrder ==
    <<"recoil_compensation", "bloom_reduction", "require_ads", "show_crosshair",
      "use_makcu", "recoil_strength", "smoothing", "bloom_intensity",
      "crosshair_size", "crosshair_thickness", "crosshair_color">>

\* a dict update_settings can build in which every widget is off its default
EditedWidgets ==
    [recoil_compensation |-> FALSE,
     bloom_reduction |-> TRUE,
     require_ads |-> FALSE,
     show_crosshair |-> TRUE,
     recoil_strength |-> 15,
     smoothing |-> 5,
     bloom_intensity |-> 4,
     crosshair_color |-> "#00FF00",
     crosshair_size |-> 9,
     crosshair_thickness |-> 3,
     use_makcu |-> TRUE]

\* the dicts AppState.update is called with in SpecCfg: the widgets at their
\* defaults, every widget edited, and the one-key dict {recoil_strength: 15}
UpdateChoices == {DEFAULTS, EditedWidgets, [recoil_strength |-> 15]}

\* the keys of the dict new in the order settings.update(new) writes them
KeysOf(new) == SelectSeq(WidgetOrder, LAMBDA k : k \in DOMAIN new)

\* settings.update(new_settings) as a whole
merged(old, new) ==
    [k \in DOMAIN old |-> IF k \in DOMAIN new THEN new[k] ELSE old[k]]

(***************************************************************************)
(* Config.load (src lines 153-162).  The file at CONFIG_PATH is absent,    *)
(* or cannot be opened, or holds text that is not JSON, or bytes that are  *)
(* not text in the encoding of open(), or JSON that is not an object, or   *)
(* an object; the fields of the object are a function of its keys.         *)
(***************************************************************************)
NoFields == [k \in {} |-> 0]

DocKeys == {"smoothing", "recoil_strength", "use_makcu", "legacy_key"}

\* the object holding the keys of present with the values given
DocFields(present, sm, st, um) ==
    [k \in present |->
        CASE k = "smoothing" -> sm
          [] k = "recoil_strength" -> st
          [] k = "use_makcu" -> um
          [] OTHER -> 1]

Documents ==
    { [kind |-> kd, fields |-> NoFields] :
        kd \in {"missing", "unreadable", "malformed", "not_text", "not_object"} }
    \cup
    { [kind |-> "object", fields |-> DocFields(present, sm, st, um)] :
        present \in SUBSET DocKeys, sm \in {0, 5, 7}, st \in {1, 15}, um \in BOOLEAN }

\* {**cls.DEFAULTS, **json.load(f)} for an object (src line 159)
dict_merge(defaults, stored) ==
    [k \in (DOMAIN defaults) \cup (DOMAIN stored) |->
        IF k \in DOMAIN stored THEN stored[k] ELSE defaults[k]]

\* what Config.load gives for a document: the except clause takes
\* json.JSONDecodeError and IOError, and nothing else
load(doc) ==
    CASE doc.kind = "missing" -> [kind |-> "dict", value |-> DEFAULTS]
      [] doc.kind = "unreadable" -> [kind |-> "dict", value |-> DEFAULTS]
      [] doc.kind = "malformed" -> [kind |-> "dict", value |-> DEFAULTS]
      [] doc.kind = "not_text" -> [kind |-> "UnicodeDecodeError", value |-> NoFields]
      [] doc.kind = "not_object" -> [kind |-> "TypeError", value |-> NoFields]
      [] OTHER -> [kind |-> "dict", value |-> dict_merge(DEFAULTS, doc.fields)]

NoDocument == [kind |-> "missing", fields |-> NoFields]

NoResult == [kind |-> "none", value |-> NoFields]

LdIdle ==
    /\ ld_pc = "idle"
    /\ ld_doc = NoDocument
    /\ ld_result = NoResult

LdInit ==
    /\ ld_pc = "call"
    /\ ld_doc \in Documents
    /\ ld_result = NoResult

(***************************************************************************)
(* AppState (src lines 172-185).  "with self.lock" is an acquire, the body *)
(* and a release; dict.update and dict.copy go key by key.                 *)
(***************************************************************************)
AppStateInit ==
    /\ settings = DEFAULTS
    /\ lock = "free"

CfgIdle ==
    /\ u_pc = "idle"
    /\ u_new = DEFAULTS
    /\ u_idx = 0
    /\ updates = 0
    /\ g_pc = "idle"
    /\ g_copy = <<>>
    /\ g_idx = 0
    /\ snapshots = 0
    /\ versions = <<DEFAULTS>>

\* the mutant's "with" does not wait for the lock
lock_acquirable_always == TRUE

\* threading.Lock.acquire returns once the lock is free
lock_acquirable == lock = "free"

\* update_settings calls AppState.update(new_settings) (src line 703);
\* versions records the settings as this update will leave them
CfgUpdateCall ==
    /\ u_pc = "idle"
    /\ updates < MaxUpdates
    /\ updates' = updates + 1
    /\ \E new \in UpdateChoices :
          /\ u_new' = new
          /\ versions' = Append(versions, merged(versions[Len(versions)], new))
    /\ u_pc' = "acquire"
    /\ u_idx' = 0
    /\ UNCHANGED <<settings, lock, g_pc, g_copy, g_idx, snapshots>>
    /\ UNCHANGED <<ctlVars, dmVars, loopVars, extVars>>

\* src line 180: with self.lock
CfgUpdateAcquire ==
    /\ u_pc = "acquire"
    /\ lock_acquirable
    /\ lock' = "update"
    /\ u_pc' = "merge"
    /\ u_idx' = 1
    /\ UNCHANGED <<settings, u_new, updates, g_pc, g_copy, g_idx, snapshots, versions>>
    /\ UNCHANGED <<ctlVars, dmVars, loopVars, extVars>>

\* src line 181: one key of self.settings.update(new_settings)
CfgUpdateMerge ==
    /\ u_pc = "merge"
    /\ u_idx <= Len(KeysOf(u_new))
    /\ settings' = [settings EXCEPT ![KeysOf(u_new)[u_idx]] = u_new[KeysOf(u_new)[u_idx]]]
    /\ u_idx' = u_idx + 1
    /\ UNCHANGED <<lock, u_pc, u_new, updates, g_pc, g_copy, g_idx, snapshots, versions>>
    /\ UNCHANGED <<ctlVars, dmVars, loopVars, extVars>>

\* src line 181: the end of the with block of update
CfgUpdateRelease ==
    /\ u_pc = "merge"
    /\ u_idx > Len(KeysOf(u_new))
    /\ lock' = "free"
    /\ u_pc' = "idle"
    /\ u_idx' = 0
    /\ UNCHANGED <<settings, u_new, updates, g_pc, g_copy, g_idx, snapshots, versions>>
    /\ UNCHANGED <<ctlVars, dmVars, loopVars, extVars>>

\* recoil_loop calls AppState.get_full_config() (src line 405)
CfgGetCall ==
    /\ g_pc \in {"idle", "done"}
    /\ snapshots < MaxSnapshots
    /\ snapshots' = snapshots + 1
    /\ g_pc' = "acquire"
    /\ g_copy' = <<>>
    /\ g_idx' = 0
    /\ UNCHANGED <<settings, lock, u_pc, u_new, u_idx, updates, versions>>
    /\ UNCHANGED <<ctlVars, dmVars, loopVars, extVars>>

\* src line 184: with self.lock
CfgGetAcquire ==
    /\ g_pc = "acquire"
    /\ lock_acquirable
    /\ lock' = "get"
    /\ g_pc' = "copy"
    /\ g_idx' = 1
    /\ UNCHANGED <<settings, u_pc, u_new, u_idx, updates, g_copy, snapshots, versions>>
    /\ UNCHANGED <<ctlVars, dmVars, loopVars, extVars>>

\* src line 185: one key of self.settings.copy()
CfgGetCopy ==
    /\ g_pc = "copy"
    /\ g_idx <= Len(KeyOrder)
    /\ g_copy' = [k \in {KeyOrder[j] : j \in 1..g_idx} |->
                    IF k = KeyOrder[g_idx] THEN settings[k] ELSE g_copy[k]]
    /\ g_idx' = g_idx + 1
    /\ UNCHANGED <<settings, lock, g_pc, u_pc, u_new, u_idx, updates, snapshots, versions>>
    /\ UNCHANGED <<ctlVars, dmVars, loopVars, extVars>>

\* src line 185: return, the end of the with block of get_full_config
CfgGetRelease ==
    /\ g_pc = "copy"
    /\ g_idx > Len(KeyOrder)
    /\ lock' = "free"
    /\ g_pc' = "done"
    /\ g_idx' = 0
    /\ UNCHANGED <<settings, u_pc, u_new, u_idx, updates, g_copy, snapshots, versions>>
    /\ UNCHANGED <<ctlVars, dmVars, loopVars, extVars>>

(***************************************************************************)
(* The settings recoil_loop reads.  Config.load hands AppState whatever    *)
(* the stored document holds, so a run starts from any of InitSettings;    *)
(* the sliders give values of their ranges (src lines 577-579), of which   *)
(* the model takes a few, and smoothing = 0 can come from the document     *)
(* only.  The overlay's keys keep their defaults.                          *)
(***************************************************************************)
Strengths == {1, 10}

Smoothings == {0, 1, 5}

Intensities == {0, 2}

\* Config.load checks no value: the document can hold a bloom_intensity
\* outside the slider's range, here -1
FileIntensities == Intensities \cup {-1}

InitSettings ==
    { [DEFAULTS EXCEPT !.recoil_compensation = rc, !.bloom_reduction = br,
                       !.require_ads = ra, !.use_makcu = um,
                       !.recoil_strength = st, !.smoothing = sm,
                       !.bloom_intensity = bi] :
        rc \in BOOLEAN, br \in BOOLEAN, ra \in BOOLEAN, um \in BOOLEAN,
        st \in Strengths, sm \in Smoothings, bi \in FileIntensities }

\* the widgets showing the settings: slider.setRange keeps the smoothing
\* slider at 1 or more and the bloom_intensity slider at 0 or more
\* (src lines 576-585)
Widgets(s) == [s EXCEPT !.smoothing = Max(1, @), !.bloom_intensity = Max(0, @)]

\* the dicts update_settings builds after one control was moved
\* (src lines 697-701); the use_makcu checkbox has its own handler
EditedOnce(s) ==
    { [Widgets(s) EXCEPT !.recoil_compensation = v] : v \in BOOLEAN } \cup
    { [Widgets(s) EXCEPT !.bloom_reduction = v] : v \in BOOLEAN } \cup
    { [Widgets(s) EXCEPT !.require_ads = v] : v \in BOOLEAN } \cup
    { [Widgets(s) EXCEPT !.recoil_strength = v] : v \in Strengths } \cup
    { [Widgets(s) EXCEPT !.smoothing = v] : v \in Smoothings \ {0} } \cup
    { [Widgets(s) EXCEPT !.bloom_intensity = v] : v \in Intensities }

\* the controller as a connect() that succeeded on port 1 leaves it
ConnectedInit ==
    /\ serial = [port |-> 1, is_open |-> TRUE,
                 baudrate |-> DEVICE_PROFILES[ProfileOrder[1]].BAUDRATE_HIGH]
    /\ connected = TRUE
    /\ port_name = 1
    /\ leaked = {}

(***************************************************************************)
(* CloudRecoil.recoil_loop (src lines 401-441), one step at a time.        *)
(***************************************************************************)
\* the locals hold nothing before their assignment in the tick; the model
\* keeps them at fixed values there, config at the defaults
NoConfig == DEFAULTS

\* the main thread has fired no timer and closed no window, and no worker
\* thread was started
UiIdle ==
    /\ t_pc = "idle"
    /\ reported = 0
    /\ fires = 0
    /\ ce_pc = "idle"
    /\ saved = NoConfig
    /\ w_pc = "idle"

\* the user has not clicked the checkbox, no second worker thread was
\* started, and no connect() is probing the object in self.serial
ConnIdle ==
    /\ clicks = 0
    /\ clicked = "none"
    /\ w2_pc = "idle"
    /\ d_pc = "idle"
    /\ d_ports = 0
    /\ d_port = 0
    /\ d_prof = 0
    /\ d_ret = "none"
    /\ probing = FALSE

ExtIdle == LdIdle /\ UiIdle /\ ConnIdle

LoopLocalsIdle ==
    /\ l_fps = 0
    /\ config = NoConfig
    /\ lmb_pressed = FALSE
    /\ ads_pressed = FALSE
    /\ smoothing = 0
    /\ dx_total = 0
    /\ x_moves = <<>>
    /\ y_moves = <<>>
    /\ use_makcu = FALSE
    /\ step_i = 0
    /\ sent = <<>>
    /\ lost_before = FALSE

LoopInit ==
    /\ l_pc = "while"
    /\ running = TRUE
    /\ fps = 0
    /\ ticks = 0
    /\ edits = 0
    /\ LoopLocalsIdle

LoopIdle ==
    /\ l_pc = "idle"
    /\ running = TRUE
    /\ fps = 0
    /\ ticks = 0
    /\ edits = 0
    /\ LoopLocalsIdle

\* the mutant forgets the secondary button
is_recoil_active_no_ads(lmb, ads, cfg) ==
    lmb /\ cfg.recoil_compensation

\* src lines 410-414
is_recoil_active(lmb, ads, cfg) ==
    lmb /\ cfg.recoil_compensation /\ (~cfg.require_ads \/ ads)

\* the mutant trusts the configuration
plan_steps_unclamped(cfg) == cfg.smoothing

\* src line 417: smoothing = max(1, config['smoothing'])
plan_steps(cfg) == Max(1, cfg.smoothing)

\* src lines 419-421: random.randint(-b, b) draws from -b..b, and raises
\* ValueError when the range is empty
jitter_draws(cfg) ==
    IF cfg.bloom_reduction THEN (-cfg.bloom_intensity)..cfg.bloom_intensity ELSE {0}

\* the mutant's while does not look at the flag
LoopWhileBlind ==
    /\ l_pc = "while"
    /\ ticks < MaxTicks
    /\ ticks' = ticks + 1
    /\ l_pc' = "fps_load"
    /\ UNCHANGED <<running, fps, edits, loopLocals>>
    /\ UNCHANGED <<ctlVars, cfgVars, dmVars, extVars>>

\* src line 403: while self.app_state.running
LoopWhile ==
    /\ l_pc = "while"
    /\ IF running
       THEN /\ ticks < MaxTicks
            /\ ticks' = ticks + 1
            /\ l_pc' = "fps_load"
       ELSE /\ l_pc' = "exit"
            /\ UNCHANGED ticks
    /\ UNCHANGED <<running, fps, edits, l_fps, config, lmb_pressed, ads_pressed, smoothing,
                   dx_total, x_moves, y_moves, use_makcu, step_i, sent, lost_before>>
    /\ UNCHANGED <<ctlVars, cfgVars, dmVars, extVars>>

\* src line 404: self.app_state.fps += 1, the read
LoopFpsLoad ==
    /\ l_pc = "fps_load"
    /\ l_fps' = fps
    /\ l_pc' = "fps_store"
    /\ UNCHANGED <<running, fps, ticks, edits, config, lmb_pressed, ads_pressed, smoothing,
                   dx_total, x_moves, y_moves, use_makcu, step_i, sent, lost_before>>
    /\ UNCHANGED <<ctlVars, cfgVars, dmVars, extVars>>

\* src line 404: self.app_state.fps += 1, the write
LoopFpsStore ==
    /\ l_pc = "fps_store"
    /\ fps' = l_fps + 1
    /\ l_fps' = 0
    /\ l_pc' = "get_config"
    /\ UNCHANGED <<running, ticks, edits, config, lmb_pressed, ads_pressed, smoothing,
                   dx_total, x_moves, y_moves, use_makcu, step_i, sent, lost_before>>
    /\ UNCHANGED <<ctlVars, cfgVars, dmVars, extVars>>

\* src line 405: config = self.app_state.get_full_config(); "with self.lock"
\* is entered (src line 184)
LoopLockAcquire ==
    /\ l_pc = "get_config"
    /\ lock_acquirable
    /\ lock' = "loop"
    /\ l_pc' = "copy"
    /\ UNCHANGED <<running, fps, ticks, edits, l_fps, config, lmb_pressed, ads_pressed, smoothing,
                   dx_total, x_moves, y_moves, use_makcu, step_i, sent, lost_before>>
    /\ UNCHANGED <<settings, u_pc, u_new, u_idx, updates, g_pc, g_copy, g_idx, snapshots, versions>>
    /\ UNCHANGED <<ctlVars, dmVars, extVars>>

\* src line 185: self.settings.copy() (SpecCfg takes it key by key)
LoopCopy ==
    /\ l_pc = "copy"
    /\ config' = settings
    /\ l_pc' = "release"
    /\ UNCHANGED <<running, fps, ticks, edits, l_fps, lmb_pressed, ads_pressed, smoothing,
                   dx_total, x_moves, y_moves, use_makcu, step_i, sent, lost_before>>
    /\ UNCHANGED <<ctlVars, cfgVars, dmVars, extVars>>

\* the mutant leaves the with block and keeps the lock
LoopLockKept ==
    /\ l_pc = "release"
    /\ l_pc' = "evaluate"
    /\ UNCHANGED <<running, fps, ticks, edits, l_fps, config, lmb_pressed, ads_pressed, smoothing,
                   dx_total, x_moves, y_moves, use_makcu, step_i, sent, lost_before>>
    /\ UNCHANGED <<ctlVars, cfgVars, dmVars, extVars>>

\* src lines 184-185: the with block is left and the copy returned
LoopLockRelease ==
    /\ l_pc = "release"
    /\ lock' = "free"
    /\ l_pc' = "evaluate"
    /\ UNCHANGED <<running, fps, ticks, edits, l_fps, config, lmb_pressed, ads_pressed, smoothing,
                   dx_total, x_moves, y_moves, use_makcu, step_i, sent, lost_before>>
    /\ UNCHANGED <<settings, u_pc, u_new, u_idx, updates, g_pc, g_copy, g_idx, snapshots, versions>>
    /\ UNCHANGED <<ctlVars, dmVars, extVars>>

\* src lines 407-427: the key states, the activation and, when active, the
\* plan of the tick and the choice of backend.  recoil_loop has no try
\* statement: the ValueError of an empty jitter range leaves the function
\* and ends its thread.
LoopEvaluate ==
    /\ l_pc = "evaluate"
    /\ \E lmb \in BOOLEAN : \E ads \in BOOLEAN :
          /\ lmb_pressed' = lmb
          /\ ads_pressed' = ads
          /\ IF ~is_recoil_active(lmb, ads, config)
             THEN /\ l_pc' = "sleep"
                  /\ UNCHANGED <<smoothing, dx_total, x_moves, y_moves, use_makcu, lost_before>>
             ELSE IF jitter_draws(config) = {}
             THEN /\ smoothing' = plan_steps(config)
                  /\ l_pc' = "raised"
                  /\ UNCHANGED <<dx_total, x_moves, y_moves, use_makcu, lost_before>>
             ELSE /\ smoothing' = plan_steps(config)
                  /\ \E dx \in jitter_draws(config) :
                        /\ dx_total' = dx
                        /\ x_moves' = distribute_movement(dx, plan_steps(config))
                  /\ y_moves' = distribute_movement(config.recoil_strength, plan_steps(config))
                  /\ use_makcu' = (config.use_makcu /\ connected)
                  /\ lost_before' = lost
                  /\ l_pc' = IF plan_steps(config) > 0 THEN "send" ELSE "sleep"
    /\ step_i' = 0
    /\ UNCHANGED <<running, fps, ticks, edits, l_fps, config, sent>>
    /\ UNCHANGED <<ctlVars, cfgVars, dmVars, extVars>>

\* the mutant's for loop looks the number of sub-steps up in the live settings
after_step_live == IF step_i + 1 < Max(1, settings.smoothing) THEN "send" ELSE "sleep"

\* where the for loop goes after sub-step step_i and its time.sleep(0.001)
after_step == IF step_i + 1 < smoothing THEN "send" ELSE "sleep"

\* src line 437: win32api.mouse_event(MOUSEEVENTF_MOVE, dx, dy, 0, 0)
LoopSendSynthetic ==
    /\ l_pc = "send"
    /\ ~use_makcu
    /\ sent' = Append(sent, [backend |-> "synthetic", dx |-> x_moves[step_i + 1],
                             dy |-> y_moves[step_i + 1], ret |-> "True"])
    /\ step_i' = step_i + 1
    /\ l_pc' = after_step
    /\ UNCHANGED <<running, fps, ticks, edits, l_fps, config, lmb_pressed, ads_pressed,
                   smoothing, dx_total, x_moves, y_moves, use_makcu, lost_before>>
    /\ UNCHANGED <<ctlVars, cfgVars, dmVars, extVars>>

\* src line 434: self.mouse_controller.move(dx, dy), the call and its checks
LoopMoveCall ==
    /\ l_pc = "send"
    /\ use_makcu
    /\ move_call(x_moves[step_i + 1], y_moves[step_i + 1])
    /\ l_pc' = "move"
    /\ UNCHANGED <<running, fps, ticks, edits, l_fps, config, lmb_pressed, ads_pressed,
                   smoothing, dx_total, x_moves, y_moves, use_makcu, step_i, sent, lost_before>>
    /\ UNCHANGED <<connectVars, callsVars, cfgVars, dmVars, extVars>>

\* src line 434: the write inside move
LoopMoveWrite ==
    /\ l_pc = "move"
    /\ move_write
    /\ UNCHANGED <<l_pc, running, fps, ticks, edits, l_fps, config, lmb_pressed, ads_pressed,
                   smoothing, dx_total, x_moves, y_moves, use_makcu, step_i, sent, lost_before>>
    /\ UNCHANGED <<connectVars, callsVars, cfgVars, dmVars, extVars>>

\* src lines 434-439: move has returned; the activity signal follows a True
LoopMoveReturn ==
    /\ l_pc = "move"
    /\ m_pc = "done"
    /\ sent' = Append(sent, [backend |-> "makcu", dx |-> m_call.x, dy |-> m_call.y,
                             ret |-> m_call.ret])
    /\ m_pc' = "idle"
    /\ m_call' = NoCall
    /\ step_i' = step_i + 1
    /\ l_pc' = after_step
    /\ UNCHANGED <<running, fps, ticks, edits, l_fps, config, lmb_pressed, ads_pressed,
                   smoothing, dx_total, x_moves, y_moves, use_makcu, lost_before>>
    /\ UNCHANGED <<selfVars, connectVars, callsVars, lost, cfgVars, dmVars, extVars>>

\* src line 441: time.sleep(0.002), and back to the while
LoopSleep ==
    /\ l_pc = "sleep"
    /\ l_pc' = "while"
    /\ l_fps' = 0
    /\ config' = NoConfig
    /\ lmb_pressed' = FALSE
    /\ ads_pressed' = FALSE
    /\ smoothing' = 0
    /\ dx_total' = 0
    /\ x_moves' = <<>>
    /\ y_moves' = <<>>
    /\ use_makcu' = FALSE
    /\ step_i' = 0
    /\ sent' = <<>>
    /\ lost_before' = FALSE
    /\ UNCHANGED <<running, fps, ticks, edits>>
    /\ UNCHANGED <<ctlVars, cfgVars, dmVars, extVars>>

\* update_settings after one control was moved (src lines 697-703); the
\* merge is AppState.update's, made under the lock
UiUpdateSettings ==
    /\ edits < MaxEdits
    /\ edits' = edits + 1
    /\ lock_acquirable
    /\ \E new \in EditedOnce(settings) :
          /\ new # settings
          /\ settings' = merged(settings, new)
    /\ UNCHANGED <<lock, u_pc, u_new, u_idx, updates, g_pc, g_copy, g_idx, snapshots, versions>>
    /\ UNCHANGED <<l_pc, running, fps, ticks, l_fps, config, lmb_pressed, ads_pressed,
                   smoothing, dx_total, x_moves, y_moves, use_makcu, step_i, sent, lost_before>>
    /\ UNCHANGED <<ctlVars, dmVars, extVars>>

(***************************************************************************)
(* SpecLoop: recoil_loop runs up to MaxTicks ticks while the UI moves up   *)
(* to MaxEdits controls; the controller is as __init__ or as a connect()   *)
(* left it, and its writes can fail.                                       *)
(***************************************************************************)
InitLoop ==
    /\ settings \in InitSettings
    /\ lock = "free"
    /\ CfgIdle
    /\ LoopInit
    /\ SelfInit \/ ConnectedInit
    /\ ConnectIdle /\ MoveIdle /\ CallerInit
    /\ DmIdle
    /\ ExtIdle

NextLoop ==
    \/ LoopWhile
    \/ LoopFpsLoad
    \/ LoopFpsStore
    \/ LoopLockAcquire
    \/ LoopCopy
    \/ LoopLockRelease
    \/ LoopEvaluate
    \/ LoopSendSynthetic
    \/ LoopMoveCall
    \/ LoopMoveWrite
    \/ LoopMoveReturn
    \/ LoopSleep
    \/ UiUpdateSettings

SpecLoop == InitLoop /\ [][NextLoop]_vars

\* the dx (or dy) of the tick's backend calls, in order
SentDx == [k \in 1..Len(sent) |-> sent[k].dx]

SentDy == [k \in 1..Len(sent) |-> sent[k].dy]

\* the activation condition as the specification words it, on the tick's
\* snapshot and key states
ActivationHolds ==
    config.recoil_compensation /\ lmb_pressed /\ (~config.require_ads \/ ads_pressed)

(***************************************************************************)
(* C3: a tick dispatches recoil movement exactly when, on the snapshot it  *)
(* took and the key states it read, recoil_compensation is on, the primary *)
(* button is down and either require_ads is off or the secondary button is *)
(* down: while the tick is sending the condition holds, and a finished     *)
(* tick has made backend calls if and only if it holds.                    *)
(***************************************************************************)
C3_Activation ==
    /\ l_pc \in {"send", "move"} => ActivationHolds
    /\ l_pc = "sleep" => (Len(sent) > 0 <=> ActivationHolds)

\* a tick that dispatched with require_ads on and both buttons down, although
\* the UI switched recoil_compensation off after the snapshot
C3_Witness ==
    /\ l_pc = "sleep"
    /\ Len(sent) > 0
    /\ config.recoil_compensation /\ config.require_ads
    /\ lmb_pressed /\ ads_pressed
    /\ ~settings.recoil_compensation

C11_Original == running => l_pc # "raised"

(***************************************************************************)
(* C12: a tick that chooses its backend after a move write has failed,     *)
(* with no connect() since, sends every sub-move through the synthetic     *)
(* backend and none through the controller, and sends all of them.         *)
(***************************************************************************)
C12_FallbackNextTick ==
    (lost_before /\ l_pc \in {"send", "move", "sleep"}) =>
        /\ ~use_makcu
        /\ l_pc # "move"
        /\ m_pc = "idle"
        /\ \A k \in 1..Len(sent) : sent[k].backend = "synthetic"
        /\ l_pc = "sleep" => Len(sent) = Max(1, config.smoothing)

\* the second tick, active with use_makcu set, after a write failed in the
\* first: five synthetic calls
C12_Witness ==
    /\ l_pc = "sleep"
    /\ ticks = 2
    /\ lost_before
    /\ config.use_makcu
    /\ Len(sent) = 5
    /\ \A k \in 1..Len(sent) : sent[k].backend = "synthetic"

(***************************************************************************)
(* C15: each sub-step of an active tick goes to the hardware backend if    *)
(* and only if use_makcu is set and the controller is connected at the     *)
(* time of that sub-step.  This is the claim as made: a sub-step is never  *)
(* handed to a controller that is not connected, and never to the          *)
(* synthetic backend while use_makcu is set and the controller connected.  *)
(* recoil_loop chooses the backend once per tick (src line 426), so after  *)
(* a write fails the rest of the plan still goes to move(), which returns  *)
(* False without writing.                                                  *)
(***************************************************************************)
C15_Original ==
    /\ (l_pc = "move" /\ m_pc = "done") =>
          ~(m_call.ret = "False" /\ m_call.writes = <<>>)
    /\ (l_pc = "send" /\ ~use_makcu) => ~(config.use_makcu /\ connected)

(***************************************************************************)
(* C18: recoil_loop holds the configuration lock only between entering     *)
(* the with block of get_full_config and leaving it: it does not hold it   *)
(* while it reads the key states, writes to the serial device, injects     *)
(* synthetic input or sleeps.                                              *)
(***************************************************************************)
C18_LockScope ==
    /\ lock = "loop" => l_pc \in {"copy", "release"}
    /\ l_pc \in {"evaluate", "send", "move", "sleep", "while", "fps_load", "fps_store"} =>
          lock = "free"

\* the UI has merged an update while the loop is inside a serial write
C18_Witness ==
    /\ l_pc = "move"
    /\ m_pc = "write"
    /\ lock = "free"
    /\ edits > 0
    /\ settings # Widgets(config)

(***************************************************************************)
(* C20: a plan, once started, runs over all max(1, smoothing) sub-steps    *)
(* with the values computed from the tick's snapshot: whatever the live    *)
(* settings have become, the calls made so far are the plan's first        *)
(* entries in order, the plan is the distribution of the snapshot's        *)
(* recoil_strength and of the tick's jitter, and the finished tick has     *)
(* made one call per entry.                                                *)
(***************************************************************************)
C20_PlanRunsToCompletion ==
    (l_pc \in {"send", "move"} \/ (l_pc = "sleep" /\ ActivationHolds)) =>
        /\ smoothing = Max(1, config.smoothing)
        /\ x_moves = distribute_movement(dx_total, smoothing)
        /\ y_moves = distribute_movement(config.recoil_strength, smoothing)
        /\ step_i = Len(sent)
        /\ \A k \in 1..Len(sent) : sent[k].dx = x_moves[k] /\ sent[k].dy = y_moves[k]
        /\ IF l_pc = "sleep" THEN Len(sent) = smoothing ELSE Len(sent) < smoothing

\* the UI has set the smoothing slider to 1 and switched recoil compensation
\* off since the snapshot; the plan of five has been sent all the same
C20_Witness ==
    /\ l_pc = "sleep"
    /\ config.smoothing = 5
    /\ config.recoil_compensation
    /\ Len(sent) = 5
    /\ settings.smoothing = 1 \/ ~settings.recoil_compensation

(***************************************************************************)
(* CloudRecoil.update_fps_label (src lines 729-731), run by the main       *)
(* thread at each timeout of fps_timer: the counter is read for the        *)
(* signal, then reset.  Neither line takes a lock.                         *)
(***************************************************************************)
\* src line 730: self.fps_updated.emit(self.app_state.fps)
TimerEmit ==
    /\ t_pc = "idle"
    /\ fires < MaxFires
    /\ fires' = fires + 1
    /\ reported' = reported + fps
    /\ t_pc' = "reset"
    /\ UNCHANGED <<ce_pc, saved, w_pc, ldVars, connVars, loopVars, ctlVars, cfgVars, dmVars>>

\* src line 731: self.app_state.fps = 0
TimerReset ==
    /\ t_pc = "reset"
    /\ fps' = 0
    /\ t_pc' = "idle"
    /\ UNCHANGED <<l_pc, running, ticks, edits, loopLocals>>
    /\ UNCHANGED <<reported, fires, ce_pc, saved, w_pc, ldVars, connVars, ctlVars, cfgVars, dmVars>>

\* a few settings for the specifications that are not about the plan: the
\* defaults, and the defaults with the hardware backend on and no ADS gate
FewSettings == {DEFAULTS, [DEFAULTS EXCEPT !.use_makcu = TRUE, !.require_ads = FALSE]}

(***************************************************************************)
(* SpecFps: recoil_loop runs up to MaxTicks ticks while fps_timer fires up *)
(* to MaxFires times.                                                      *)
(***************************************************************************)
InitFps ==
    /\ settings \in FewSettings
    /\ lock = "free"
    /\ CfgIdle
    /\ LoopInit
    /\ SelfInit \/ ConnectedInit
    /\ ConnectIdle /\ MoveIdle /\ CallerInit
    /\ DmIdle
    /\ ExtIdle

NextFps ==
    \/ LoopWhile
    \/ LoopFpsLoad
    \/ LoopFpsStore
    \/ LoopLockAcquire
    \/ LoopCopy
    \/ LoopLockRelease
    \/ LoopEvaluate
    \/ LoopSendSynthetic
    \/ LoopMoveCall
    \/ LoopMoveWrite
    \/ LoopMoveReturn
    \/ LoopSleep
    \/ TimerEmit
    \/ TimerReset

SpecFps == InitFps /\ [][NextFps]_vars

(***************************************************************************)
(* C17: the tick counter is read-modify-written atomically: it is never    *)
(* negative, and whenever neither the loop's increment nor the timer's     *)
(* read-and-reset is under way, the values the timer has reported plus the *)
(* current counter add up to the number of ticks started (no tick is lost  *)
(* and no reset is overwritten by a stale increment).  This is the claim   *)
(* as made; fps += 1 and the timer's two lines take no lock.               *)
(***************************************************************************)
C17_Original ==
    /\ fps >= 0
    /\ (t_pc = "idle" /\ l_pc \notin {"fps_load", "fps_store"}) =>
          reported + fps = ticks

(***************************************************************************)
(* The use_makcu checkbox and the worker thread it starts (src lines       *)
(* 706-720), and closeEvent (src lines 650-658).                           *)
(***************************************************************************)
\* the checkbox as the widget shows it: the handler of a click stores the
\* state at once (src line 707); after a worker's setChecked(False) the box
\* is unchecked while the handler it posted has not run yet
BoxChecked == settings.use_makcu /\ w_pc # "uncheck" /\ w2_pc # "uncheck"

\* on_makcu_toggled(Qt.Checked) after the user's click: update_settings, then
\* the worker thread is started (src lines 707-709)
UiMakcuChecked ==
    /\ ce_pc = "idle"
    /\ w_pc = "idle"
    /\ w2_pc # "uncheck"
    /\ ~settings.use_makcu
    /\ clicks < MaxClicks
    /\ lock_acquirable
    /\ settings' = merged(settings, [Widgets(settings) EXCEPT !.use_makcu = TRUE])
    /\ w_pc' = "start"
    /\ clicks' = clicks + 1
    /\ clicked' = "check"
    /\ UNCHANGED <<lock, u_pc, u_new, u_idx, updates, g_pc, g_copy, g_idx, snapshots, versions>>
    /\ UNCHANGED <<t_pc, reported, fires, ce_pc, saved, ldVars, workerTwoVars, probing>>
    /\ UNCHANGED <<loopVars, ctlVars, dmVars>>

\* the same handler when a thread started by an earlier check exists: a
\* further thread is started beside it
UiMakcuCheckedAgain ==
    /\ ce_pc = "idle"
    /\ w_pc \notin {"idle", "uncheck"}
    /\ w2_pc = "idle"
    /\ ~settings.use_makcu
    /\ clicks < MaxClicks
    /\ lock_acquirable
    /\ settings' = merged(settings, [Widgets(settings) EXCEPT !.use_makcu = TRUE])
    /\ w2_pc' = "start"
    /\ clicks' = clicks + 1
    /\ clicked' = "check"
    /\ UNCHANGED <<lock, u_pc, u_new, u_idx, updates, g_pc, g_copy, g_idx, snapshots, versions>>
    /\ UNCHANGED <<uiVars, ldVars, d_pc, d_ports, d_port, d_prof, d_ret, probing>>
    /\ UNCHANGED <<loopVars, ctlVars, dmVars>>

\* on_makcu_toggled(Qt.Unchecked) after the user's click: update_settings,
\* then close() (src lines 707, 710-712); a worker thread is left running
UiMakcuUserUnchecked ==
    /\ ce_pc = "idle"
    /\ BoxChecked
    /\ clicks < MaxClicks
    /\ lock_acquirable
    /\ settings' = merged(settings, [Widgets(settings) EXCEPT !.use_makcu = FALSE])
    /\ close
    /\ clicks' = clicks + 1
    /\ clicked' = "uncheck"
    /\ UNCHANGED <<lock, u_pc, u_new, u_idx, updates, g_pc, g_copy, g_idx, snapshots, versions>>
    /\ UNCHANGED <<uiVars, ldVars, workerTwoVars, probing>>
    /\ UNCHANGED <<connectVars, moveVars, callsVars, lost, loopVars, dmVars>>

\* _connect_makcu_worker calls connect() (src line 716)
WorkerConnectCall ==
    /\ w_pc = "start"
    /\ \E n \in 0..MaxWorkerPorts : connect_found(n)
    /\ w_pc' = "connect"
    /\ UNCHANGED <<t_pc, reported, fires, ce_pc, saved>>
    /\ UNCHANGED <<moveVars, callsVars, ldVars, connVars, loopVars, cfgVars, dmVars>>

\* serial.Serial(...) puts a new object in self.serial
WorkerConnectOpen ==
    /\ w_pc = "connect"
    /\ connect_open
    /\ probing' = IF c_pc' = "handshake" THEN TRUE ELSE probing
    /\ UNCHANGED <<moveVars, callsVars, ldVars, uiVars, boxVars, workerTwoVars>>
    /\ UNCHANGED <<loopVars, cfgVars, dmVars>>

WorkerConnectHandshake ==
    /\ w_pc = "connect"
    /\ connect_handshake
    /\ UNCHANGED <<moveVars, callsVars, extVars, loopVars, cfgVars, dmVars>>

\* _finalize_connection has done its I/O on the object in self.serial
WorkerConnectFinalize ==
    /\ w_pc = "connect"
    /\ connect_finalize
    /\ probing' = IF c_pc' = "mark" THEN FALSE ELSE probing
    /\ UNCHANGED <<moveVars, callsVars, ldVars, uiVars, boxVars, workerTwoVars>>
    /\ UNCHANGED <<loopVars, cfgVars, dmVars>>

WorkerConnectMark ==
    /\ w_pc = "connect"
    /\ connect_mark
    /\ UNCHANGED <<moveVars, callsVars, extVars, loopVars, cfgVars, dmVars>>

\* connect() has returned (src lines 716-720): a status signal is emitted
\* and, after False, setChecked(False); unchecking a checked box posts its
\* stateChanged handler to the main thread
WorkerReturn ==
    /\ w_pc = "connect"
    /\ c_pc = "done"
    /\ w_pc' = IF c_ret = "False" /\ BoxChecked THEN "uncheck" ELSE "done"
    /\ UNCHANGED <<t_pc, reported, fires, ce_pc, saved>>
    /\ UNCHANGED <<ctlVars, ldVars, connVars, loopVars, cfgVars, dmVars>>

\* on_makcu_toggled(Qt.Unchecked) after the worker unchecked the box:
\* update_settings, then close() (src lines 707, 710-712)
UiMakcuUnchecked ==
    /\ ce_pc = "idle"
    /\ w_pc = "uncheck"
    /\ lock_acquirable
    /\ settings' = merged(settings, [Widgets(settings) EXCEPT !.use_makcu = FALSE])
    /\ close
    /\ w_pc' = "done"
    /\ UNCHANGED <<lock, u_pc, u_new, u_idx, updates, g_pc, g_copy, g_idx, snapshots, versions>>
    /\ UNCHANGED <<t_pc, reported, fires, ce_pc, saved>>
    /\ UNCHANGED <<connectVars, moveVars, callsVars, lost, ldVars, connVars, loopVars, dmVars>>

(***************************************************************************)
(* The second worker thread: _connect_makcu_worker and its own call of     *)
(* connect() (src lines 213-247, 714-720), on the same controller.  The    *)
(* locals of the call are d_ports, d_port and d_prof; self.serial,         *)
(* self.connected and self.port_name are the fields both calls share.      *)
(***************************************************************************)
d_profile == DEVICE_PROFILES[ProfileOrder[d_prof]]

\* where the for loops of the second call go after a rejected candidate
after_reject_second ==
    IF d_prof < Len(ProfileOrder)
    THEN [pc |-> "open", port |-> d_port, prof |-> d_prof + 1, ret |-> "none"]
    ELSE IF d_port < d_ports
    THEN [pc |-> "open", port |-> d_port + 1, prof |-> 1, ret |-> "none"]
    ELSE [pc |-> "done", port |-> d_port, prof |-> d_prof, ret |-> "False"]

RejectSecond ==
    /\ d_pc' = after_reject_second.pc
    /\ d_port' = after_reject_second.port
    /\ d_prof' = after_reject_second.prof
    /\ d_ret' = after_reject_second.ret
    /\ UNCHANGED d_ports

\* src lines 214-219, 716
Worker2ConnectCall ==
    /\ w2_pc = "start"
    /\ d_pc = "idle"
    /\ close
    /\ \E n \in 0..MaxWorkerPorts :
          /\ d_ports' = n
          /\ IF n = 0
             THEN d_pc' = "done" /\ d_ret' = "False" /\ d_port' = 0 /\ d_prof' = 0
             ELSE d_pc' = "open" /\ d_ret' = "none" /\ d_port' = 1 /\ d_prof' = 1
    /\ w2_pc' = "connect"
    /\ UNCHANGED <<connectVars, moveVars, callsVars, lost>>
    /\ UNCHANGED <<ldVars, uiVars, boxVars, probing, loopVars, cfgVars, dmVars>>

\* src lines 223-229 and, when serial.Serial raises, lines 241-244
Worker2ConnectOpen ==
    /\ w2_pc = "connect"
    /\ d_pc = "open"
    /\ \/ /\ serial' = [port |-> d_port, is_open |-> TRUE, baudrate |-> BAUDRATE_DEFAULT]
          /\ leaked' = IF serial_is_open THEN leaked \cup {serial.port} ELSE leaked
          /\ d_pc' = "handshake"
          /\ probing' = TRUE
          /\ UNCHANGED <<d_ports, d_port, d_prof, d_ret>>
       \/ /\ serial' = serial_closed
          /\ RejectSecond
          /\ UNCHANGED <<leaked, probing>>
    /\ UNCHANGED <<connected, port_name, connectVars, moveVars, callsVars, lost>>
    /\ UNCHANGED <<ldVars, uiVars, boxVars, w2_pc, loopVars, cfgVars, dmVars>>

\* src lines 231-240 and, when the write raises, lines 241-244
Worker2ConnectHandshake ==
    /\ w2_pc = "connect"
    /\ d_pc = "handshake"
    /\ \/ /\ serial' = serial_closed
          /\ RejectSecond
       \/ /\ serial_is_open
          /\ \E lines \in DeviceOutputs :
                IF any_keyword(d_profile, read_response(lines))
                THEN /\ d_pc' = "finalize"
                     /\ UNCHANGED <<serial, d_ports, d_port, d_prof, d_ret>>
                ELSE /\ serial' = serial_closed
                     /\ RejectSecond
    /\ UNCHANGED <<connected, port_name, leaked, connectVars, moveVars, callsVars, lost>>
    /\ UNCHANGED <<ldVars, uiVars, boxVars, w2_pc, probing, loopVars, cfgVars, dmVars>>

\* _finalize_connection up to the timeouts (src lines 250-260) and, when a
\* write or the change of baud rate raises, lines 241-244 of connect
Worker2ConnectFinalize ==
    /\ w2_pc = "connect"
    /\ d_pc = "finalize"
    /\ port_name' = d_port
    /\ \/ /\ finalize_writes(d_profile) => serial_is_open
          /\ serial' = [serial EXCEPT !.baudrate = d_profile.BAUDRATE_HIGH]
          /\ d_pc' = "mark"
          /\ probing' = FALSE
          /\ UNCHANGED <<d_ports, d_port, d_prof, d_ret>>
       \/ /\ finalize_does_io(d_profile)
          /\ serial' = serial_closed
          /\ RejectSecond
          /\ UNCHANGED probing
    /\ UNCHANGED <<connected, leaked, connectVars, moveVars, callsVars, lost>>
    /\ UNCHANGED <<ldVars, uiVars, boxVars, w2_pc, loopVars, cfgVars, dmVars>>

\* _finalize_connection from the timeouts on (src lines 262-265) and the
\* return True of connect (line 238)
Worker2ConnectMark ==
    /\ w2_pc = "connect"
    /\ d_pc = "mark"
    /\ connected' = TRUE
    /\ d_ret' = "True"
    /\ d_pc' = "done"
    /\ lost' = FALSE
    /\ UNCHANGED <<serial, port_name, leaked, d_ports, d_port, d_prof>>
    /\ UNCHANGED <<connectVars, moveVars, callsVars>>
    /\ UNCHANGED <<ldVars, uiVars, boxVars, w2_pc, probing, loopVars, cfgVars, dmVars>>

\* src lines 716-720, as WorkerReturn
Worker2Return ==
    /\ w2_pc = "connect"
    /\ d_pc = "done"
    /\ w2_pc' = IF d_ret = "False" /\ BoxChecked THEN "uncheck" ELSE "done"
    /\ UNCHANGED <<d_pc, d_ports, d_port, d_prof, d_ret, boxVars, probing>>
    /\ UNCHANGED <<ctlVars, ldVars, uiVars, loopVars, cfgVars, dmVars>>

\* on_makcu_toggled(Qt.Unchecked) after the second worker unchecked the box
UiMakcuUnchecked2 ==
    /\ ce_pc = "idle"
    /\ w2_pc = "uncheck"
    /\ lock_acquirable
    /\ settings' = merged(settings, [Widgets(settings) EXCEPT !.use_makcu = FALSE])
    /\ close
    /\ w2_pc' = "done"
    /\ UNCHANGED <<lock, u_pc, u_new, u_idx, updates, g_pc, g_copy, g_idx, snapshots, versions>>
    /\ UNCHANGED <<d_pc, d_ports, d_port, d_prof, d_ret, boxVars, probing>>
    /\ UNCHANGED <<connectVars, moveVars, callsVars, lost, ldVars, uiVars, loopVars, dmVars>>

\* src lines 652-653: self.mouse_controller.close()
CloseEventClose ==
    /\ ce_pc = "idle"
    /\ t_pc = "idle"
    /\ u_pc = "idle"
    /\ close
    /\ ce_pc' = "save"
    /\ UNCHANGED <<t_pc, reported, fires, saved, w_pc>>
    /\ UNCHANGED <<connectVars, moveVars, callsVars, lost, ldVars, connVars, loopVars, cfgVars, dmVars>>

\* src line 655: Config.save(self.app_state.get_full_config())
CloseEventSave ==
    /\ ce_pc = "save"
    /\ lock_acquirable
    /\ saved' = settings
    /\ ce_pc' = "clear"
    /\ UNCHANGED <<t_pc, reported, fires, w_pc>>
    /\ UNCHANGED <<ctlVars, ldVars, connVars, loopVars, cfgVars, dmVars>>

\* src lines 656-658: self.app_state.running = False, and the event is
\* handed on
CloseEventClear ==
    /\ ce_pc = "clear"
    /\ running' = FALSE
    /\ ce_pc' = "done"
    /\ UNCHANGED <<l_pc, fps, ticks, edits, loopLocals>>
    /\ UNCHANGED <<t_pc, reported, fires, saved, w_pc>>
    /\ UNCHANGED <<ctlVars, ldVars, connVars, cfgVars, dmVars>>

(***************************************************************************)
(* SpecShut: the program as init_threads leaves it (src lines 474-482):    *)
(* the worker started when use_makcu was stored set, the loop at its       *)
(* first tick.  The user can check the box and close the window.           *)
(***************************************************************************)
InitShut ==
    /\ settings \in FewSettings
    /\ lock = "free"
    /\ CfgIdle
    /\ LoopInit
    /\ CtlIdle
    /\ DmIdle
    /\ LdIdle
    /\ ConnIdle
    /\ t_pc = "idle" /\ reported = 0 /\ fires = 0
    /\ ce_pc = "idle" /\ saved = NoConfig
    /\ w_pc = IF settings.use_makcu THEN "start" ELSE "idle"

NextShut ==
    \/ LoopWhile
    \/ LoopFpsLoad
    \/ LoopFpsStore
    \/ LoopLockAcquire
    \/ LoopCopy
    \/ LoopLockRelease
    \/ LoopEvaluate
    \/ LoopSendSynthetic
    \/ LoopMoveCall
    \/ LoopMoveWrite
    \/ LoopMoveReturn
    \/ LoopSleep
    \/ UiMakcuChecked
    \/ UiMakcuUnchecked
    \/ WorkerConnectCall
    \/ WorkerConnectOpen
    \/ WorkerConnectHandshake
    \/ WorkerConnectFinalize
    \/ WorkerConnectMark
    \/ WorkerReturn
    \/ CloseEventClose
    \/ CloseEventSave
    \/ CloseEventClear

SpecShut == InitShut /\ [][NextShut]_vars

(***************************************************************************)
(* C13: once closeEvent has completed, the running flag is cleared and no  *)
(* serial connection is open (connected = False), whatever the loop and a  *)
(* connect worker still running do.  This is the claim as made; closeEvent *)
(* closes the controller once and does not stop or wait for the worker.    *)
(***************************************************************************)
C13_Original ==
    ce_pc = "done" =>
        /\ ~running
        /\ ~connected
        /\ ~serial_is_open

\* one step of the thread running recoil_loop
LoopStep ==
    \/ LoopWhile
    \/ LoopFpsLoad
    \/ LoopFpsStore
    \/ LoopLockAcquire
    \/ LoopCopy
    \/ LoopLockRelease
    \/ LoopEvaluate
    \/ LoopSendSynthetic
    \/ LoopMoveCall
    \/ LoopMoveWrite
    \/ LoopMoveReturn
    \/ LoopSleep

\* a step in which a write of move() raised
WriteRaised ==
    /\ m_pc = "write"
    /\ Len(m_call'.writes) = Len(m_call.writes) + 1
    /\ ~m_call'.writes[Len(m_call'.writes)].ok

(***************************************************************************)
(* C21: recoil_loop never calls connect() or close().  No step of the loop *)
(* changes self.serial or port_name or advances a connect() call, and the  *)
(* only change a step of the loop makes to connected is from True to False *)
(* in a move() whose write raised: the loop never turns connected from     *)
(* False to True.                                                          *)
(***************************************************************************)
C21_LoopFrame ==
    [][LoopStep =>
          /\ serial' = serial
          /\ port_name' = port_name
          /\ leaked' = leaked
          /\ UNCHANGED <<connectVars, workerTwoVars, w_pc>>
          /\ connected' # connected => (connected /\ ~connected' /\ WriteRaised)]_vars

\* the worker has connected, and a write of the loop's move() then raised:
\* connected is False, the port is still open and port_name still set
C21_Witness ==
    /\ l_pc = "move"
    /\ m_pc = "done"
    /\ m_call.ret = "False"
    /\ Len(m_call.writes) = 1
    /\ c_ret = "True"
    /\ ~connected
    /\ serial_is_open
    /\ port_name = serial.port

(***************************************************************************)
(* SpecConn: the program as init_threads leaves it (src lines 474-482),    *)
(* with the user clicking the use_makcu checkbox up to MaxClicks times:    *)
(* recoil_loop, the main thread's handlers and up to two threads running   *)
(* _connect_makcu_worker share the one controller.                         *)
(***************************************************************************)
\* the settings of SpecConn: the box stored unchecked or checked, no ADS
\* gate, and a plan of one sub-step
ConnSettings ==
    { [DEFAULTS EXCEPT !.use_makcu = um, !.require_ads = FALSE, !.smoothing = 1] :
        um \in BOOLEAN }

InitConn ==
    /\ settings \in ConnSettings
    /\ lock = "free"
    /\ CfgIdle
    /\ LoopInit
    /\ CtlIdle
    /\ DmIdle
    /\ LdIdle
    /\ ConnIdle
    /\ t_pc = "idle" /\ reported = 0 /\ fires = 0
    /\ ce_pc = "idle" /\ saved = NoConfig
    /\ w_pc = IF settings.use_makcu THEN "start" ELSE "idle"

\* one step of the first worker thread
WorkerStep ==
    \/ WorkerConnectCall
    \/ WorkerConnectOpen
    \/ WorkerConnectHandshake
    \/ WorkerConnectFinalize
    \/ WorkerConnectMark
    \/ WorkerReturn

\* one step of the second worker thread
Worker2Step ==
    \/ Worker2ConnectCall
    \/ Worker2ConnectOpen
    \/ Worker2ConnectHandshake
    \/ Worker2ConnectFinalize
    \/ Worker2ConnectMark
    \/ Worker2Return

\* one handler of the use_makcu checkbox, run by the main thread
ToggleStep ==
    \/ UiMakcuChecked
    \/ UiMakcuCheckedAgain
    \/ UiMakcuUserUnchecked
    \/ UiMakcuUnchecked
    \/ UiMakcuUnchecked2

NextConn ==
    \/ LoopStep
    \/ WorkerStep
    \/ Worker2Step
    \/ ToggleStep

SpecConn == InitConn /\ [][NextConn]_vars

\* a connect() call is between its first candidate and its return
Searching(pc) == pc \in {"open", "handshake", "finalize", "mark"}

(***************************************************************************)
(* C22: in every reachable state exactly one of Disconnected, Searching,   *)
(* Connected(port) holds: whenever connected is True the serial handle is  *)
(* an open port and port_name is set to it, and connected is never True    *)
(* while a connect() call is still probing candidates, under every         *)
(* interleaving of the connect workers, the close() of the checkbox        *)
(* handler and the loop's move() calls.  This is the claim as made; the    *)
(* fields are written by the worker threads and the main thread with no    *)
(* lock.                                                                   *)
(***************************************************************************)
C22_Original ==
    connected =>
        /\ serial_is_open
        /\ port_name = serial.port
        /\ ~Searching(c_pc)
        /\ ~Searching(d_pc)

\* a step in which move() wrote a motion command to the port
MotionWritten == m_pc = "write" /\ m_pc' = "done" /\ m_call'.ret = "True"

(***************************************************************************)
(* C24: every motion command written by move() goes to a serial port whose *)
(* handshake matched an accepted keyword and which connect() finalized; no *)
(* motion command is written to a port that is still being probed or was   *)
(* rejected, under every interleaving of the loop with one or more connect *)
(* workers (the box checked, unchecked and checked again while a search is *)
(* running).  This is the claim as made; a second connect() replaces the   *)
(* object in self.serial while connected, set by the first, is True.       *)
(***************************************************************************)
C24_Original == [][MotionWritten => ~probing]_vars

(***************************************************************************)
(* C25: if the user unchecks use_makcu and does not check it again, the    *)
(* controller ends up Disconnected (connected = False) and stays so, even  *)
(* when a connect worker started by the earlier check was in its handshake *)
(* at the moment of the uncheck: once no worker thread is running any      *)
(* more, connected is False.  This is the claim as made; the handler's     *)
(* close() does not stop the worker, whose connect() goes on to the next   *)
(* candidate.                                                              *)
(***************************************************************************)
C25_Original ==
    (clicked = "uncheck" /\ w_pc \in {"idle", "done"} /\ w2_pc \in {"idle", "done"}) =>
        ~connected

(***************************************************************************)
(* SpecStop: recoil_loop beside the main thread, which merges up to        *)
(* MaxUpdates updates key by key under the lock and then may close the     *)
(* window.  The loop's thread keeps being scheduled, and a handler of the  *)
(* main thread, once begun, runs to its end: both are weakly fair.         *)
(***************************************************************************)
\* the main thread enters update_settings (src lines 697-703) while the
\* window is open
MainUpdateCall == ce_pc = "idle" /\ CfgUpdateCall

\* one step of a handler the main thread has begun
MainStep ==
    \/ CfgUpdateAcquire
    \/ CfgUpdateMerge
    \/ CfgUpdateRelease
    \/ CloseEventSave
    \/ CloseEventClear

InitStop ==
    /\ settings \in FewSettings
    /\ lock = "free"
    /\ CfgIdle
    /\ LoopInit
    /\ SelfInit \/ ConnectedInit
    /\ ConnectIdle /\ MoveIdle /\ CallerInit
    /\ DmIdle
    /\ ExtIdle

NextStop ==
    \/ LoopStep
    \/ MainUpdateCall
    \/ MainStep
    \/ CloseEventClose

SpecStop == InitStop /\ [][NextStop]_vars /\ WF_vars(LoopStep) /\ WF_vars(MainStep)

(***************************************************************************)
(* C19: once the running flag is cleared, recoil_loop starts no new tick   *)
(* and eventually leaves its while loop, whatever the main thread was      *)
(* doing with the configuration lock and whatever the controller's writes  *)
(* do: it does not wait forever for the lock or for a backend call.        *)
(***************************************************************************)
C19_LoopExits ==
    /\ (~running) ~> (l_pc = "exit")
    /\ [][(~running) => (ticks' = ticks)]_vars

\* the flag was cleared in the middle of a plan sent through the controller,
\* and the loop has left
C19_Witness ==
    /\ l_pc = "exit"
    /\ ~running
    /\ ticks >= 1
    /\ lost

(***************************************************************************)
(* SpecLoad: Config.load is called once on a drawn document.               *)
(***************************************************************************)
LdCall ==
    /\ ld_pc = "call"
    /\ ld_result' = load(ld_doc)
    /\ ld_pc' = "done"
    /\ UNCHANGED <<ld_doc, uiVars, connVars, dmVars, ctlVars, cfgVars, loopVars>>

InitLoad == LdInit /\ UiIdle /\ ConnIdle /\ DmIdle /\ CtlIdle /\ AppStateInit /\ CfgIdle /\ LoopIdle

NextLoad == LdCall

SpecLoad == InitLoad /\ [][NextLoad]_vars

(***************************************************************************)
(* C14: Config.load returns the stored object merged over the defaults:    *)
(* every key of the defaults that the object lacks has its default value,  *)
(* every one it holds has the stored value, whatever other keys it holds;  *)
(* and a document that is missing or is not a JSON object gives exactly    *)
(* the defaults.  This is the claim as made; a document that is not text   *)
(* or not an object raises out of Config.load instead.                     *)
(***************************************************************************)
C14_Original ==
    ld_pc = "done" =>
        /\ ld_result.kind = "dict"
        /\ ld_doc.kind # "object" => ld_result.value = DEFAULTS
        /\ ld_doc.kind = "object" =>
              \A k \in DOMAIN DEFAULTS :
                  ld_result.value[k] =
                      IF k \in DOMAIN ld_doc.fields THEN ld_doc.fields[k] ELSE DEFAULTS[k]

(***************************************************************************)
(* SpecCfg: the UI calls AppState.update up to MaxUpdates times while the  *)
(* loop calls AppState.get_full_config up to MaxSnapshots times.           *)
(***************************************************************************)
InitCfg == AppStateInit /\ CfgIdle /\ CtlIdle /\ DmIdle /\ LoopIdle /\ ExtIdle

NextCfg ==
    \/ CfgUpdateCall
    \/ CfgUpdateAcquire
    \/ CfgUpdateMerge
    \/ CfgUpdateRelease
    \/ CfgGetCall
    \/ CfgGetAcquire
    \/ CfgGetCopy
    \/ CfgGetRelease

SpecCfg == InitCfg /\ [][NextCfg]_vars

(***************************************************************************)
(* C10: every snapshot get_full_config returns is the whole settings as    *)
(* they were before the first update or as some update left them: it never *)
(* holds some keys of an update and misses others.                         *)
(***************************************************************************)
C10_SnapshotIsolation ==
    g_pc = "done" => \E v \in 1..Len(versions) : g_copy = versions[v]

\* A snapshot taken after the merge of every widget: the edited settings.
C10_Witness ==
    /\ g_pc = "done"
    /\ g_copy = EditedWidgets
    /\ snapshots = MaxSnapshots

(***************************************************************************)
(* SpecCtl: one caller makes up to MaxCalls calls of connect, move and     *)
(* close, one after the other, on a controller as __init__ leaves it.      *)
(***************************************************************************)
Quiescent == c_pc = "idle" /\ m_pc = "idle"

CtlConnectCall ==
    /\ Quiescent
    /\ calls < MaxCalls
    /\ calls' = calls + 1
    /\ connect_call
    /\ UNCHANGED <<moveVars, last_op, prev_op, close_snap, dmVars, cfgVars, loopVars, extVars>>

CtlConnectOpen == connect_open /\ UNCHANGED <<moveVars, callsVars, dmVars, cfgVars, loopVars, extVars>>

CtlConnectHandshake == connect_handshake /\ UNCHANGED <<moveVars, callsVars, dmVars, cfgVars, loopVars, extVars>>

CtlConnectFinalize == connect_finalize /\ UNCHANGED <<moveVars, callsVars, dmVars, cfgVars, loopVars, extVars>>

CtlConnectMark == connect_mark /\ UNCHANGED <<moveVars, callsVars, dmVars, cfgVars, loopVars, extVars>>

CtlConnectReturn ==
    /\ c_pc = "done"
    /\ c_pc' = "idle"
    /\ c_ports' = 0 /\ c_port' = 0 /\ c_prof' = 0
    /\ c_log' = <<>> /\ c_ret' = "none" /\ c_before' = FALSE
    /\ last_op' = "connect"
    /\ prev_op' = last_op
    /\ UNCHANGED <<selfVars, moveVars, calls, close_snap, lost, dmVars, cfgVars, loopVars, extVars>>

CtlMoveCall ==
    /\ Quiescent
    /\ calls < MaxCalls
    /\ calls' = calls + 1
    /\ \E x \in -MaxMove..MaxMove : \E y \in -MaxMove..MaxMove : move_call(x, y)
    /\ UNCHANGED <<connectVars, last_op, prev_op, close_snap, dmVars, cfgVars, loopVars, extVars>>

CtlMoveWrite == move_write /\ UNCHANGED <<connectVars, callsVars, dmVars, cfgVars, loopVars, extVars>>

CtlMoveReturn ==
    /\ m_pc = "done"
    /\ m_pc' = "idle"
    /\ m_call' = NoCall
    /\ last_op' = "move"
    /\ prev_op' = last_op
    /\ UNCHANGED <<selfVars, connectVars, calls, close_snap, lost, dmVars, cfgVars, loopVars, extVars>>

\* close_snap keeps the fields a close() found when the call before it was a
\* close() too, that is, the fields as the first of the two left them
CtlClose ==
    /\ Quiescent
    /\ calls < MaxCalls
    /\ calls' = calls + 1
    /\ close
    /\ last_op' = "close"
    /\ prev_op' = last_op
    /\ close_snap' = IF last_op = "close" THEN <<serial, connected, port_name>> ELSE <<>>
    /\ UNCHANGED <<connectVars, moveVars, lost, dmVars, cfgVars, loopVars, extVars>>

InitCtl == CtlIdle /\ DmIdle /\ AppStateInit /\ CfgIdle /\ LoopIdle /\ ExtIdle

NextCtl ==
    \/ CtlConnectCall
    \/ CtlConnectOpen
    \/ CtlConnectHandshake
    \/ CtlConnectFinalize
    \/ CtlConnectMark
    \/ CtlConnectReturn
    \/ CtlMoveCall
    \/ CtlMoveWrite
    \/ CtlMoveReturn
    \/ CtlClose

SpecCtl == InitCtl /\ [][NextCtl]_vars

(***************************************************************************)
(* C5: a call move(0, 0) writes nothing to the serial port; it returns     *)
(* True when the controller is connected and holds a Serial object, and    *)
(* False when it does not.                                                 *)
(***************************************************************************)
ZeroMoveDone == m_pc = "done" /\ m_call.x = 0 /\ m_call.y = 0

C5_ZeroMove ==
    ZeroMoveDone =>
        /\ m_call.writes = <<>>
        /\ m_call.ret \in {"True", "False"}
        /\ m_call.ret = "True" <=> (connected /\ serial # None)

\* move(0, 0) on a connected controller has returned True.
C5_Witness == ZeroMoveDone /\ connected /\ m_call.ret = "True"

\* The claim as stated: every call move(0, 0) writes nothing and returns True.
C5_Original ==
    ZeroMoveDone => (m_call.writes = <<>> /\ m_call.ret = "True")

(***************************************************************************)
(* C6: when the write inside move fails, move has set connected to False   *)
(* and returns False after that one write, with the Serial object and      *)
(* port_name as they were; and every move called after a failed write and  *)
(* before a connect() that succeeds returns False without writing.         *)
(***************************************************************************)
WriteFailed == \E k \in 1..Len(m_call.writes) : ~m_call.writes[k].ok

C6_WriteFailure ==
    m_pc = "done" =>
        /\ WriteFailed =>
              /\ connected = FALSE
              /\ m_call.ret = "False"
              /\ Len(m_call.writes) = 1
              /\ serial.port = m_call.writes[1].port
              /\ c_pc = "idle"
        /\ m_call.lost_at_call =>
              /\ m_call.ret = "False"
              /\ m_call.writes = <<>>

\* A move with a motion to send, called after a failed write: refused.
C6_Witness ==
    /\ m_pc = "done"
    /\ m_call.lost_at_call
    /\ m_call.x # 0
    /\ serial.is_open
    /\ m_call.ret = "False"

(***************************************************************************)
(* C7: when no candidate of a connect() call gave a response holding one   *)
(* of its profile's keywords (an empty port list included), connect()      *)
(* returns False and leaves connected = False, port_name = None and no     *)
(* open port, whatever the fields were before the call.                    *)
(***************************************************************************)
HandshakeMatched(e) == e.outcome \in {"matched", "final_error"}

NoCandidateMatched == \A k \in 1..Len(c_log) : ~HandshakeMatched(c_log[k])

C7_NoMatchDisconnected ==
    (c_pc = "done" /\ NoCandidateMatched) =>
        /\ c_ret = "False"
        /\ connected = FALSE
        /\ port_name = NoPort
        /\ ~serial_is_open

\* connect() on a connected controller found ports, none answering: False.
C7_Witness ==
    /\ c_pc = "done"
    /\ c_before
    /\ c_ports >= 1
    /\ NoCandidateMatched
    /\ c_ret = "False"

(***************************************************************************)
(* C8: an I/O error while a candidate is opened, handshaken or finalized   *)
(* does not leave connect(): the candidates are tried in order, each after *)
(* the one before it was rejected; connect() returns True exactly when a   *)
(* candidate's handshake matched and its finalization completed, and none  *)
(* is tried after that one; it returns False only when every candidate has *)
(* been tried.                                                             *)
(***************************************************************************)
\* the (port, profile) pairs of ports 1..n in the order of the for loops
Candidates(n) ==
    [k \in 1..(n * Len(ProfileOrder)) |->
        [port |-> ((k - 1) \div Len(ProfileOrder)) + 1,
         profile |-> ProfileOrder[((k - 1) % Len(ProfileOrder)) + 1]]]

IOError(e) == e.outcome \in {"open_error", "write_error"}

C8_ErrorsSwallowed ==
    c_pc = "done" =>
        /\ c_ret \in {"True", "False"}
        /\ Len(c_log) <= Len(Candidates(c_ports))
        /\ \A k \in 1..Len(c_log) :
              /\ c_log[k].port = Candidates(c_ports)[k].port
              /\ c_log[k].profile = Candidates(c_ports)[k].profile
              /\ c_log[k].outcome = "matched" => k = Len(c_log)
        /\ c_ret = "True" <=> \E k \in 1..Len(c_log) : c_log[k].outcome = "matched"
        /\ c_ret = "False" => Len(c_log) = Len(Candidates(c_ports))

\* The first candidate could not be opened and a later one connected.
C8_Witness ==
    /\ c_pc = "done"
    /\ Len(c_log) >= 2
    /\ c_log[1].outcome = "open_error"
    /\ c_ret = "True"
    /\ connected

\* The claim as stated: after an I/O error on a candidate, connect() returns
\* True if and only if the handshake of some later candidate matches.
C8_Original ==
    c_pc = "done" =>
        \A k \in 1..Len(c_log) :
            IOError(c_log[k]) =>
                (c_ret = "True" <=>
                    \E j \in (k + 1)..Len(c_log) : HandshakeMatched(c_log[j]))

(***************************************************************************)
(* C16: connect() tries the (port, profile) candidates one at a time,      *)
(* each enumerated port in turn and for each port the profiles in catalog  *)
(* order; it stops at the first candidate whose response holds an accepted *)
(* keyword and whose finalization completes, opens none after it, and      *)
(* returns True with connected = True, port_name that candidate's port and *)
(* that port open; it returns False only after the last candidate.         *)
(***************************************************************************)
C16_FirstMatchWins ==
    c_pc = "done" =>
        /\ \A k \in 1..Len(c_log) :
              /\ k <= Len(Candidates(c_ports))
              /\ c_log[k].port = Candidates(c_ports)[k].port
              /\ c_log[k].profile = Candidates(c_ports)[k].profile
              /\ c_log[k].outcome = "matched" =>
                    /\ k = Len(c_log)
                    /\ c_ret = "True"
                    /\ connected
                    /\ port_name = c_log[k].port
                    /\ serial_is_open
                    /\ serial.port = c_log[k].port
        /\ c_ret = "True" => Len(c_log) >= 1 /\ c_log[Len(c_log)].outcome = "matched"
        /\ c_ret = "False" => Len(c_log) = Len(Candidates(c_ports))

\* two ports: the first profile got no keyword from port 1, the second did,
\* and port 2 was never opened
C16_Witness ==
    /\ c_pc = "done"
    /\ c_ports = 2
    /\ Len(c_log) = 2
    /\ c_log[1].outcome = "no_match"
    /\ c_log[2] = [port |-> 1, profile |-> ProfileOrder[2], outcome |-> "matched"]
    /\ c_ret = "True"
    /\ port_name = 1

\* The claim as stated: connect() stops at the first candidate whose response
\* holds an accepted keyword and returns True connected to its port.
C16_Original ==
    c_pc = "done" =>
        \A k \in 1..Len(c_log) :
            HandshakeMatched(c_log[k]) =>
                /\ k = Len(c_log)
                /\ c_ret = "True"
                /\ connected
                /\ port_name = c_log[k].port

(***************************************************************************)
(* C23: every candidate port that connect() opens and then rejects (no     *)
(* keyword in the response, or an I/O error at the open, the handshake or  *)
(* the finalization) is closed before the next candidate is opened: no     *)
(* Serial object is dropped while open, so at most one port that a         *)
(* connect() opened is open at any time, and none is open when connect()   *)
(* has returned False.                                                     *)
(***************************************************************************)
Rejected(e) == e.outcome \in {"open_error", "write_error", "no_match", "final_error"}

C23_RejectedClosed ==
    /\ leaked = {}
    /\ c_pc = "open" => ~serial_is_open
    /\ (c_pc \in {"open", "done"} /\ Len(c_log) >= 1 /\ Rejected(c_log[Len(c_log)])) =>
          ~serial_is_open
    /\ (c_pc = "done" /\ c_ret = "False") => ~serial_is_open

\* two ports and four candidates, rejected for three different reasons; the
\* call has returned False
C23_Witness ==
    /\ c_pc = "done"
    /\ c_ret = "False"
    /\ Len(c_log) = 4
    /\ \E k \in 1..4 : c_log[k].outcome = "no_match"
    /\ \E k \in 1..4 : c_log[k].outcome = "write_error"
    /\ \E k \in 1..4 : c_log[k].outcome = "final_error"
    /\ serial # None
    /\ ~serial_is_open

(***************************************************************************)
(* C9: close() leaves connected = False, port_name = None and the serial   *)
(* port closed, from every state of the controller; a second close() right *)
(* after it leaves the fields exactly as the first did.                    *)
(***************************************************************************)
AfterClose == Quiescent /\ last_op = "close"

C9_CloseIdempotent ==
    AfterClose =>
        /\ connected = FALSE
        /\ port_name = NoPort
        /\ ~serial_is_open
        /\ prev_op = "close" => close_snap = <<serial, connected, port_name>>

\* close() twice on a controller that a failed write had disconnected.
C9_Witness ==
    /\ AfterClose
    /\ prev_op = "close"
    /\ lost
    /\ serial # None

(***************************************************************************)
(* SpecDist: one call of distribute_movement on drawn arguments.           *)
(***************************************************************************)
DmInit ==
    /\ dm_pc = "call"
    /\ dm_total \in -MaxTotal..MaxTotal
    /\ dm_steps \in -MaxNegSteps..MaxSteps
    /\ dm_moves = <<>>

DmCall ==
    /\ dm_pc = "call"
    /\ dm_moves' = distribute_movement(dm_total, dm_steps)
    /\ dm_pc' = "done"
    /\ UNCHANGED <<dm_total, dm_steps>>
    /\ UNCHANGED <<ctlVars, cfgVars, loopVars, extVars>>

InitDist == DmInit /\ CtlIdle /\ AppStateInit /\ CfgIdle /\ LoopIdle /\ ExtIdle

NextDist == DmCall

SpecDist == InitDist /\ [][NextDist]_vars

(***************************************************************************)
(* C1: for every total in -MaxTotal..MaxTotal and every steps in           *)
(* 1..MaxSteps, distribute_movement(total, steps) is a list of exactly     *)
(* steps integers whose sum is total; for every steps <= 0 it is the empty *)
(* list.                                                                   *)
(***************************************************************************)
C1_LengthAndSum ==
    dm_pc = "done" =>
        /\ dm_steps >= 1 =>
              /\ Len(dm_moves) = dm_steps
              /\ \A k \in 1..Len(dm_moves) : dm_moves[k] \in Int
              /\ SumSeq(dm_moves) = dm_total
        /\ dm_steps <= 0 => dm_moves = <<>>

\* A negative total that steps does not divide has been distributed.
C1_Witness ==
    /\ dm_pc = "done"
    /\ dm_total = -7
    /\ dm_steps = 3
    /\ dm_moves = <<-2, -2, -3>>

(***************************************************************************)
(* C2: entry i (from 0) of distribute_movement(total, steps), steps >= 1,  *)
(* is q + 1 when i < r and q otherwise, where q is the floor of            *)
(* total / steps and r the remainder in 0..steps-1, that is, the only q    *)
(* and r with total = q * steps + r and 0 <= r < steps; and                *)
(* distribute(10,3) = [4,3,3], distribute(0,5) = [0,0,0,0,0],              *)
(* distribute(7,1) = [7].                                                  *)
(***************************************************************************)
C2_FloorEntries ==
    (dm_pc = "done" /\ dm_steps >= 1) =>
        /\ \E q \in -(MaxTotal + 1)..(MaxTotal + 1) : \E r \in 0..(dm_steps - 1) :
              /\ dm_total = q * dm_steps + r
              /\ Len(dm_moves) = dm_steps
              /\ \A i \in 0..(dm_steps - 1) :
                    dm_moves[i + 1] = IF i < r THEN q + 1 ELSE q
        /\ (dm_total = 10 /\ dm_steps = 3) => dm_moves = <<4, 3, 3>>
        /\ (dm_total = 0 /\ dm_steps = 5) => dm_moves = <<0, 0, 0, 0, 0>>
        /\ (dm_total = 7 /\ dm_steps = 1) => dm_moves = <<7>>

\* A negative total: floor(-7 / 2) = -4, remainder 1, so the first entry is -3.
C2_Witness ==
    /\ dm_pc = "done"
    /\ dm_total = -7
    /\ dm_steps = 2
    /\ dm_moves = <<-3, -4>>

====
